---- MODULE Spec2Model ----
(***************************************************************************)
(* A model of donwloader.py: the Spotify liked-songs downloader.           *)
(*                                                                         *)
(* Text is a sequence of one-character strings.  Five specifications      *)
(* share the variables:                                                    *)
(*   SpecPure  sanitize_filename and the glob existence check on bounded   *)
(*             strings and directories;                                    *)
(*   SpecPool  download_all_songs called on a track list;                  *)
(*   SpecRerun the same, and called again on the same list against the     *)
(*             directory the first call left;                              *)
(*   SpecSanitize  sanitize_filename on a text of its own;                 *)
(*   Spec      main(): credentials, authentication, the paginated fetch,   *)
(*             the snapshot, the prompt and the download.                  *)
(***************************************************************************)
EXTENDS Integers, Sequences, FiniteSets, TLC

VARIABLES
    \* ---- sanitize_filename / glob on their own (SpecPure)
    pstage,         \* "init" | "sanitized" | "globbed"
    ptext,          \* the argument of sanitize_filename
    partist,        \* song_info['artist']
    pname,          \* song_info['name']
    psafe,          \* safe_filename
    pfiles,         \* potential_files
    \* ---- the file system
    dir,            \* the names of the entries of download_folder
    \* ---- download_all_songs
    songs,          \* the list passed to download_all_songs
    max_workers,    \* the width of the ThreadPoolExecutor
    cpc,            \* "idle" | "running" | "unwind" | "summary" | "raised"
    submitted,      \* how many executor.submit calls have returned
    task,           \* per list index: the future and its task body
    yielded,        \* the futures as_completed has handed to the loop
    successful_downloads,
    failed_downloads,
    skipped_downloads,
    run,            \* which call of download_all_songs this is
    firstrun,       \* the outcomes of the first call, once it printed its summary
    \* ---- main and get_liked_songs
    mpc,            \* position of main
    sp,             \* self.sp: TRUE once authenticate_spotify has set it
    offset,         \* get_liked_songs: offset
    liked_songs,    \* get_liked_songs: liked_songs
    requests,       \* the offsets of the page requests made so far
    pages,          \* the pages the source returned so far
    fetched,        \* <<the list get_liked_songs returned to main>>, <<>> before
    snapshots,      \* what save_playlist_info has written, in order
    prompted,       \* the count the prompt of line 222 has shown, if any
    response,       \* main: response, once input() has returned
    printed,        \* the user-visible messages of main, in order
    exitcode        \* <<the exit status of the process>>, <<>> while it runs

pureVars == <<pstage, ptext, partist, pname, psafe, pfiles>>
poolVars == <<songs, max_workers, cpc, submitted, task, yielded,
              successful_downloads, failed_downloads, skipped_downloads,
              run, firstrun>>
mainVars == <<mpc, sp, offset, liked_songs, requests, pages, fetched,
              snapshots, prompted, response, printed, exitcode>>
vars == <<pureVars, dir, poolVars, mainVars>>

----------------------------------------------------------------------------
(* Bounds of the model *)

\* the longest artist and the longest name SpecPure enumerates
MaxLen == 2
\* the longest track list handed to download_all_songs, and the most items
\* the source is let return over one fetch
MaxSongs == 2

----------------------------------------------------------------------------
(* Text *)

\* the characters artist and name are drawn from in SpecPure: a letter, the
\* two brackets (kept by the sanitizer, special to glob) and a reserved one
Alphabet == {"a", "[", "]", ":"}

RECURSIVE SeqsUpTo(_, _)
SeqsUpTo(S, n) ==
    IF n = 0 THEN {<<>>}
    ELSE LET shorter == SeqsUpTo(S, n - 1)
         IN  shorter \cup {Append(s, c) : s \in {t \in shorter : Len(t) = n - 1}, c \in S}

\* code points, for the ranges of a glob character class
CodePoint(c) ==
    CASE c = " " -> 32 [] c = "!" -> 33 [] c = "\"" -> 34 [] c = "*" -> 42
      [] c = "-" -> 45 [] c = "." -> 46 [] c = "/" -> 47 [] c = "3" -> 51
      [] c = ":" -> 58 [] c = "<" -> 60 [] c = ">" -> 62 [] c = "?" -> 63
      [] c = "[" -> 91 [] c = "\\" -> 92 [] c = "]" -> 93 [] c = "_" -> 95
      [] c = "a" -> 97 [] c = "b" -> 98 [] c = "m" -> 109 [] c = "p" -> 112
      [] c = "|" -> 124
      [] OTHER -> 200

\* `sub in s` of Python: sub occurs in s as a contiguous run
Contains(sub, s) ==
    \E i \in 1..(Len(s) - Len(sub) + 1) : SubSeq(s, i, i + Len(sub) - 1) = sub

IsPrefix(p, s) == Len(p) <= Len(s) /\ SubSeq(s, 1, Len(p)) = p

----------------------------------------------------------------------------
(* sanitize_filename *)

\* the class with the bar left out
InvalidCharsNoBar == {"<", ">", ":", "\"", "/", "\\", "?", "*"}

\* the character class of the regular expression [<>:"/\\|?*]
InvalidChars == {"<", ">", ":", "\"", "/", "\\", "|", "?", "*"}

IsKept(c) == c \notin InvalidChars

\* re.sub(r'[<>:"/\\|?*]', '', filename)
sanitize_filename(filename) == SelectSeq(filename, IsKept)

\* " - " of the f-strings
Dash == <<" ", "-", " ">>

\* f"{song_info['artist']} - {song_info['name']}"
Query(artist, name) == artist \o Dash \o name

\* safe_filename
SafeFilename(artist, name) == sanitize_filename(Query(artist, name))

----------------------------------------------------------------------------
(* Path.glob(f"{safe_filename}*"): one path component, matched by the      *)
(* regular expression fnmatch.translate builds from the pattern            *)

\* the position of the first "]" of pat at or after j, Len(pat) + 1 if none
RECURSIVE ClosingBracket(_, _)
ClosingBracket(pat, j) ==
    IF j > Len(pat) THEN Len(pat) + 1
    ELSE IF pat[j] = "]" THEN j
    ELSE ClosingBracket(pat, j + 1)

\* the characters of a class body: x-y is the range from x to y (empty when
\* x > y), anything else stands for itself
RECURSIVE ClassChars(_, _)
ClassChars(body, k) ==
    IF k > Len(body) THEN [single |-> {}, ranges |-> {}]
    ELSE IF k + 2 <= Len(body) /\ body[k + 1] = "-"
         THEN LET rest == ClassChars(body, k + 3)
              IN  [single |-> rest.single,
                   ranges |-> rest.ranges \cup
                              (IF CodePoint(body[k]) <= CodePoint(body[k + 2])
                               THEN {<<CodePoint(body[k]), CodePoint(body[k + 2])>>}
                               ELSE {})]
         ELSE LET rest == ClassChars(body, k + 1)
              IN  [single |-> rest.single \cup {body[k]}, ranges |-> rest.ranges]

InClass(cls, c) ==
    \/ c \in cls.single
    \/ \E r \in cls.ranges : r[1] <= CodePoint(c) /\ CodePoint(c) <= r[2]

\* the item a bracket expression [stuff] translates to
ClassItem(stuff) ==
    LET negated == stuff # <<>> /\ stuff[1] = "!"
        body    == IF negated THEN Tail(stuff) ELSE stuff
        cls     == ClassChars(body, 1)
        empty   == cls.single = {} /\ cls.ranges = {}
    IN  IF empty /\ ~negated THEN [kind |-> "never"]
        ELSE IF empty /\ negated THEN [kind |-> "any"]
        ELSE [kind |-> "class", negated |-> negated, cls |-> cls]

\* fnmatch.translate, from position i of the pattern
RECURSIVE Translate(_, _)
Translate(pat, i) ==
    IF i > Len(pat) THEN <<>>
    ELSE IF pat[i] = "*" THEN <<[kind |-> "star"]>> \o Translate(pat, i + 1)
    ELSE IF pat[i] = "?" THEN <<[kind |-> "any"]>> \o Translate(pat, i + 1)
    ELSE IF pat[i] = "["
         THEN LET j0 == i + 1
                  j1 == IF j0 <= Len(pat) /\ pat[j0] = "!" THEN j0 + 1 ELSE j0
                  j2 == IF j1 <= Len(pat) /\ pat[j1] = "]" THEN j1 + 1 ELSE j1
                  j  == ClosingBracket(pat, j2)
              IN  IF j > Len(pat)
                  THEN <<[kind |-> "lit", c |-> "["]>> \o Translate(pat, i + 1)
                  ELSE <<ClassItem(SubSeq(pat, i + 1, j - 1))>> \o Translate(pat, j + 1)
    ELSE <<[kind |-> "lit", c |-> pat[i]]>> \o Translate(pat, i + 1)

ItemMatches(item, c) ==
    CASE item.kind = "lit"   -> c = item.c
      [] item.kind = "any"   -> TRUE
      [] item.kind = "never" -> FALSE
      [] item.kind = "class" -> (InClass(item.cls, c) # item.negated)

\* re.fullmatch of the translated pattern on a name
RECURSIVE FullMatch(_, _)
FullMatch(items, s) ==
    IF items = <<>> THEN s = <<>>
    ELSE IF Head(items).kind = "star"
         THEN \E k \in 0..Len(s) : FullMatch(Tail(items), SubSeq(s, k + 1, Len(s)))
         ELSE /\ s # <<>>
              /\ ItemMatches(Head(items), Head(s))
              /\ FullMatch(Tail(items), Tail(s))

\* list(self.download_folder.glob(pattern)): the entries of the folder whose
\* name the pattern matches
Glob(entries, pattern) ==
    LET items == Translate(pattern, 1)
    IN  {f \in entries : FullMatch(items, f)}

\* an existence check that never finds a file
PotentialFilesNone(entries, safe) == {}

\* potential_files for a safe_filename
PotentialFiles(entries, safe) == Glob(entries, Append(safe, "*"))

----------------------------------------------------------------------------
(* Tracks, files and result strings *)

\* the words the aggregator looks for in a result
Downloaded == <<"D", "o", "w", "n", "l", "o", "a", "d", "e", "d">>
Skipped == <<"S", "k", "i", "p", "p", "e", "d">>

\* the extension the transcoder gives the file it writes
Mp3 == <<".", "m", "p", "3">>

\* song_info dictionaries download_all_songs is called with in SpecPool
TrackAB   == [name |-> <<"b">>, artist |-> <<"a">>, album |-> <<"x">>,
              duration_ms |-> 200000, popularity |-> 50]
\* another track with the identifier of TrackAB: the sanitizer drops the colon
TrackABc  == [name |-> <<"b", ":">>, artist |-> <<"a">>, album |-> <<"y">>,
              duration_ms |-> 180000, popularity |-> 40]
\* an artist written with brackets
TrackBrAB == [name |-> <<"b">>, artist |-> <<"[", "a", "]">>, album |-> <<"x">>,
              duration_ms |-> 200000, popularity |-> 50]
\* an artist whose name is the word Downloaded
TrackDlB  == [name |-> <<"b">>, artist |-> Downloaded, album |-> <<"x">>,
              duration_ms |-> 200000, popularity |-> 50]
\* a dictionary without the key 'artist'
TrackNoArtist == [name |-> <<"b">>, album |-> <<"x">>,
                  duration_ms |-> 200000, popularity |-> 50]

WellFormed(song_info) == {"artist", "name"} \subseteq DOMAIN song_info

PoolTracks == {TrackAB, TrackABc, TrackBrAB, TrackDlB, TrackNoArtist}

\* the contents of download_folder SpecPool starts from
PoolDirs == {{}, {<<"a", " ", "-", " ", "b">> \o Mp3}}

\* what str(e) of a caught exception reads
ErrorMessages == {<<"e", "r", "r">>}

\* the four strings search_and_download_song returns; "OK", "SKIP" and "X"
\* stand for the one-character symbols that open them
SkippedResult(query) ==
    <<"SKIP", " ", " ">> \o Skipped
        \o <<" ", "(", "a", "l", "r", "e", "a", "d", "y", " ",
             "e", "x", "i", "s", "t", "s", ")", ":", " ">> \o query
DownloadedResult(query) == <<"OK", " ">> \o Downloaded \o <<":", " ">> \o query
NotFoundResult(query) ==
    <<"X", " ", "N", "o", "t", " ", "f", "o", "u", "n", "d", ":", " ">> \o query
ErrorResult(query, msg) ==
    <<"X", " ", "E", "r", "r", "o", "r", " ",
      "d", "o", "w", "n", "l", "o", "a", "d", "i", "n", "g", " ">>
        \o query \o <<":", " ">> \o msg

\* the name of the file a download writes: outtmpl with %(ext)s filled in
OutputFile(safe, ext) == safe \o ext

----------------------------------------------------------------------------
(* search_and_download_song, one call per submitted list entry *)

\* a future before executor.submit has created it
NoTask ==
    [pc |-> "unsubmitted", outcome |-> "none", result |-> <<>>, safe |-> <<>>,
     existed |-> "unknown", info |-> <<>>, searches |-> 0, downloads |-> 0,
     wrote |-> {}]

Indices == 1..Len(songs)

\* the tasks a worker thread is running
Running == {i \in Indices : task[i].pc \in {"search", "download"}}

\* the work queue is first in, first out
HeadOfQueue(i) ==
    /\ task[i].pc = "queued"
    /\ \A j \in Indices : j < i => task[j].pc # "queued"

Finish(i, outcome, result) ==
    [task EXCEPT ![i].pc = "done", ![i].outcome = outcome, ![i].result = result]

\* a test that never takes the branch of line 111
NeverExists(potential_files) == FALSE

\* line 110: if potential_files
FileExists(potential_files) == potential_files # {}

\* an executor that starts a thread for every queued task
WorkerIdleUnbounded == TRUE

\* line 149, ThreadPoolExecutor(max_workers=max_workers): a queued task is
\* taken up only while fewer than max_workers threads are busy
WorkerIdle == Cardinality(Running) < max_workers

\* lines 105-111: the query, the safe file name and the existence check, all
\* before the try of line 113.  A dictionary without a key raises KeyError at
\* line 105; listing the folder returns the matching entries or raises
\* OSError at line 109.  Either exception ends the task and is kept by its
\* future.
TaskBegin(i) ==
    /\ cpc \in {"running", "unwind"}
    /\ HeadOfQueue(i)
    /\ WorkerIdle
    /\ LET song_info == songs[i]
       IN  IF ~WellFormed(song_info)
           THEN task' = Finish(i, "raised", <<>>)
           ELSE LET query == Query(song_info.artist, song_info.name)
                    safe_filename == SafeFilename(song_info.artist, song_info.name)
                    potential_files == PotentialFiles(dir, safe_filename)
                IN  \E listing \in {"returns", "raises"} :
                       IF listing = "raises"
                       THEN task' = [Finish(i, "raised", <<>>)
                                       EXCEPT ![i].safe = safe_filename]
                       ELSE IF FileExists(potential_files)
                       THEN task' = [Finish(i, "Skipped", SkippedResult(query))
                                       EXCEPT ![i].safe = safe_filename,
                                              ![i].existed = "yes"]
                       ELSE task' = [task EXCEPT ![i].pc = "search",
                                                 ![i].safe = safe_filename,
                                                 ![i].existed = "no"]
    /\ UNCHANGED <<pureVars, dir, songs, max_workers, cpc, submitted, yielded,
                   successful_downloads, failed_downloads, skipped_downloads,
                   run, firstrun, mainVars>>

\* what ydl.extract_info(search_query, download=False) returns: a result with
\* one entry, with no entry, or without the key 'entries'
SearchInfos ==
    {[entries |-> <<"webpage_url">>], [entries |-> <<>>], [id |-> "x"]}

\* the test of line 121 without its length check
HasEntriesKeyOnly(info) == "entries" \in DOMAIN info

\* line 121: 'entries' in info and len(info['entries']) > 0
HasEntries(info) == "entries" \in DOMAIN info /\ Len(info.entries) > 0

\* lines 113-122 and 133-137: ydl.extract_info returns or raises
TaskSearch(i) ==
    /\ cpc \in {"running", "unwind"}
    /\ i \in Indices
    /\ task[i].pc = "search"
    /\ LET query == Query(songs[i].artist, songs[i].name)
           searched == [task EXCEPT ![i].searches = @ + 1]
       IN  \E raises \in BOOLEAN, info \in SearchInfos, msg \in ErrorMessages :
              task' = IF raises
                      THEN [searched EXCEPT ![i].pc = "done",
                                            ![i].outcome = "Error",
                                            ![i].result = ErrorResult(query, msg)]
                      ELSE IF HasEntries(info)
                      THEN [searched EXCEPT ![i].pc = "download",
                                            ![i].info = <<info>>]
                      ELSE [searched EXCEPT ![i].pc = "done",
                                            ![i].info = <<info>>,
                                            ![i].outcome = "NotFound",
                                            ![i].result = NotFoundResult(query)]
    /\ UNCHANGED <<pureVars, dir, songs, max_workers, cpc, submitted, yielded,
                   successful_downloads, failed_downloads, skipped_downloads,
                   run, firstrun, mainVars>>

\* lines 124-132 and 136-137: ydl_download.download writes the file, or raises
TaskDownload(i) ==
    /\ cpc \in {"running", "unwind"}
    /\ i \in Indices
    /\ task[i].pc = "download"
    /\ LET query == Query(songs[i].artist, songs[i].name)
           file == OutputFile(task[i].safe, Mp3)
           tried == [task EXCEPT ![i].downloads = @ + 1]
       IN  \E answer \in {"written", "raises"}, msg \in ErrorMessages :
              IF answer = "written"
              THEN /\ dir' = dir \cup {file}
                   /\ task' = [tried EXCEPT ![i].pc = "done",
                                            ![i].outcome = "Downloaded",
                                            ![i].result = DownloadedResult(query),
                                            ![i].wrote = @ \cup {file}]
              ELSE /\ dir' = dir
                   /\ task' = [tried EXCEPT ![i].pc = "done",
                                            ![i].outcome = "Error",
                                            ![i].result = ErrorResult(query, msg)]
    /\ UNCHANGED <<pureVars, songs, max_workers, cpc, submitted, yielded,
                   successful_downloads, failed_downloads, skipped_downloads,
                   run, firstrun, mainVars>>

----------------------------------------------------------------------------
(* download_all_songs *)

\* max_workers=3 of the signature
DefaultMaxWorkers == 3

\* lines 161-166: which counter a result string advances
Classify(result) ==
    IF Contains(Downloaded, result) THEN "successful"
    ELSE IF Contains(Skipped, result) THEN "skipped"
    ELSE "failed"

\* lines 141-149: the counters are zeroed and the executor is created
EnterDownloadAll(list, width) ==
    /\ songs' = list
    /\ max_workers' = width
    /\ cpc' = "running"
    /\ submitted' = 0
    /\ task' = [i \in 1..Len(list) |-> NoTask]
    /\ yielded' = {}
    /\ successful_downloads' = 0
    /\ failed_downloads' = 0
    /\ skipped_downloads' = 0

\* a submission loop that also queues a failed task a second time
SubmitWithRetry ==
    /\ cpc = "running"
    /\ \/ /\ submitted < Len(songs)
          /\ submitted' = submitted + 1
          /\ task' = [task EXCEPT ![submitted + 1].pc = "queued"]
       \/ /\ \E i \in Indices \ yielded :
                /\ task[i].outcome \in {"NotFound", "Error"}
                /\ task[i].searches < 2
                /\ task' = [task EXCEPT ![i].pc = "queued", ![i].outcome = "none"]
          /\ UNCHANGED submitted
    /\ UNCHANGED <<pureVars, dir, songs, max_workers, cpc, yielded,
                   successful_downloads, failed_downloads, skipped_downloads,
                   run, firstrun, mainVars>>

\* lines 151-154: executor.submit for the next list entry
Submit ==
    /\ cpc = "running"
    /\ submitted < Len(songs)
    /\ submitted' = submitted + 1
    /\ task' = [task EXCEPT ![submitted + 1].pc = "queued"]
    /\ UNCHANGED <<pureVars, dir, songs, max_workers, cpc, yielded,
                   successful_downloads, failed_downloads, skipped_downloads,
                   run, firstrun, mainVars>>

\* lines 157-169: as_completed hands over a finished future; future.result()
\* returns the task's string or re-raises the task's exception
Collect(i) ==
    /\ cpc = "running"
    /\ submitted = Len(songs)
    /\ i \in Indices \ yielded
    /\ task[i].pc = "done"
    /\ yielded' = yielded \cup {i}
    /\ IF task[i].outcome = "raised"
       THEN /\ cpc' = "unwind"
            /\ UNCHANGED <<successful_downloads, failed_downloads, skipped_downloads>>
       ELSE /\ cpc' = cpc
            /\ LET counter == Classify(task[i].result)
               IN  /\ successful_downloads' =
                        successful_downloads + (IF counter = "successful" THEN 1 ELSE 0)
                   /\ skipped_downloads' =
                        skipped_downloads + (IF counter = "skipped" THEN 1 ELSE 0)
                   /\ failed_downloads' =
                        failed_downloads + (IF counter = "failed" THEN 1 ELSE 0)
    /\ UNCHANGED <<pureVars, dir, songs, max_workers, submitted, task,
                   run, firstrun, mainVars>>

\* a summary printed as soon as the submissions are made, without the loop
\* over the finished futures and without the executor's shutdown
SummaryWithoutWaiting ==
    /\ cpc = "running"
    /\ submitted = Len(songs)
    /\ cpc' = "summary"
    /\ UNCHANGED <<pureVars, dir, songs, max_workers, submitted, task, yielded,
                   successful_downloads, failed_downloads, skipped_downloads,
                   run, firstrun, mainVars>>

\* lines 170-176: the loop is exhausted, the executor has shut down, the
\* summary is printed
Summary ==
    /\ cpc = "running"
    /\ submitted = Len(songs)
    /\ yielded = Indices
    /\ \A i \in Indices : task[i].pc = "done"
    /\ cpc' = "summary"
    /\ UNCHANGED <<pureVars, dir, songs, max_workers, submitted, task, yielded,
                   successful_downloads, failed_downloads, skipped_downloads,
                   run, firstrun, mainVars>>

\* line 149, leaving the with block on an exception: shutdown(wait=True) lets
\* every submitted task finish, then the exception leaves download_all_songs
Unwind ==
    /\ cpc = "unwind"
    /\ \A i \in Indices : task[i].pc = "done"
    /\ cpc' = "raised"
    /\ UNCHANGED <<pureVars, dir, songs, max_workers, submitted, task, yielded,
                   successful_downloads, failed_downloads, skipped_downloads,
                   run, firstrun, mainVars>>

\* download_all_songs is called a second time on the same list; the folder
\* is as the first call left it
Rerun ==
    /\ cpc = "summary"
    /\ run = 1
    /\ run' = 2
    /\ firstrun' = [i \in Indices |-> task[i].outcome]
    /\ EnterDownloadAll(songs, max_workers)
    /\ UNCHANGED <<pureVars, dir, mainVars>>

----------------------------------------------------------------------------
(* get_liked_songs and main *)

\* limit = 50
limit == 50

\* offset = limit in place of offset += limit
NextOffsetAssigned(off) == limit

\* line 93: offset += limit
NextOffset(off) == off + limit

\* ', '.join(...)
RECURSIVE JoinComma(_)
JoinComma(names) ==
    IF names = <<>> THEN <<>>
    ELSE IF Len(names) = 1 THEN names[1]
    ELSE names[1] \o <<",", " ">> \o JoinComma(Tail(names))

\* lines 83-90: the song_info of one item of a page
SongInfo(item) ==
    [name |-> item.track.name,
     artist |-> JoinComma([k \in 1..Len(item.track.artists) |-> item.track.artists[k].name]),
     album |-> item.track.album.name,
     duration_ms |-> item.track.duration_ms,
     popularity |-> item.track.popularity]

\* lines 82-91: the loop over the items of a page
ProjectPage(page) == [k \in 1..Len(page) |-> SongInfo(page[k])]

\* items the source returns
ItemAB ==
    [track |-> [name |-> <<"b">>, artists |-> <<[name |-> <<"a">>]>>,
                album |-> [name |-> <<"x">>], duration_ms |-> 200000, popularity |-> 50]]
ItemABc ==
    [track |-> [name |-> <<"b", ":">>, artists |-> <<[name |-> <<"a">>]>>,
                album |-> [name |-> <<"y">>], duration_ms |-> 180000, popularity |-> 40]]
ItemTwo ==
    [track |-> [name |-> <<"b">>, artists |-> <<[name |-> <<"a">>], [name |-> <<"b">>]>>,
                album |-> [name |-> <<"x">>], duration_ms |-> 90000, popularity |-> 7]]
SourceItems == {ItemAB, ItemABc, ItemTwo}

\* line 180: the snapshot's file name
PlaylistFile == <<"p", "l", "a", "y", "l", "i", "s", "t", "_", "i", "n", "f", "o",
                  ".", "j", "s", "o", "n">>

\* lines 230-231: main's handler prints the message; main then returns and
\* the interpreter exits with status 0
FatalError ==
    /\ printed' = Append(printed, "An error occurred")
    /\ mpc' = "exit"
    /\ exitcode' = <<0>>

\* a fetch that swallows the exception and returns the pages it has
PageRequestRaisesKeepsPartial ==
    /\ fetched' = <<liked_songs>>
    /\ mpc' = "save"
    /\ UNCHANGED <<offset, liked_songs, pages, printed, exitcode>>

\* line 77 raises: the exception leaves get_liked_songs, nothing is returned
PageRequestRaises ==
    /\ FatalError
    /\ UNCHANGED <<offset, liked_songs, pages, fetched>>

\* lines 187-206: the banner, the credentials test, the constructor
MainStart ==
    /\ mpc = "start"
    /\ \E configured \in BOOLEAN :
          IF configured
          THEN /\ mpc' = "auth"
               /\ UNCHANGED <<printed, exitcode>>
          ELSE /\ printed' = Append(printed, "Please set up your credentials")
               /\ mpc' = "exit"
               /\ exitcode' = <<0>>
    /\ UNCHANGED <<pureVars, dir, poolVars, sp, offset, liked_songs, requests,
                   pages, fetched, snapshots, prompted, response>>

\* line 209 and lines 52-64: authenticate_spotify sets self.sp, or raises
Authenticate ==
    /\ mpc = "auth"
    /\ \E ok \in BOOLEAN :
          IF ok
          THEN /\ sp' = TRUE
               /\ mpc' = "fetch"
               /\ printed' = Append(printed, "Successfully authenticated")
               /\ UNCHANGED exitcode
          ELSE /\ FatalError
               /\ UNCHANGED sp
    /\ UNCHANGED <<pureVars, dir, poolVars, offset, liked_songs, requests,
                   pages, fetched, snapshots, prompted, response>>

\* lines 66-97 and 212-216: one turn of the while loop of get_liked_songs.
\* The request returns a page or raises; an empty page ends the loop and
\* returns liked_songs to main, which stops when the list is empty.
FetchPage ==
    /\ mpc = "fetch"
    /\ IF ~sp
       THEN /\ FatalError
            /\ UNCHANGED <<offset, liked_songs, requests, pages, fetched>>
       ELSE \E ok \in BOOLEAN,
               page \in SeqsUpTo(SourceItems, MaxSongs - Len(liked_songs)) :
               /\ Len(page) <= limit
               /\ requests' = Append(requests, offset)
               /\ IF ~ok
                  THEN PageRequestRaises
                  ELSE /\ pages' = Append(pages, page)
                       /\ IF page = <<>>
                          THEN /\ fetched' = <<liked_songs>>
                               /\ UNCHANGED <<offset, liked_songs>>
                               /\ IF liked_songs = <<>>
                                  THEN /\ printed' = Append(printed, "No liked songs found!")
                                       /\ mpc' = "exit"
                                       /\ exitcode' = <<0>>
                                  ELSE /\ mpc' = "save"
                                       /\ UNCHANGED <<printed, exitcode>>
                          ELSE /\ liked_songs' = liked_songs \o ProjectPage(page)
                               /\ offset' = NextOffset(offset)
                               /\ UNCHANGED <<fetched, mpc, printed, exitcode>>
    /\ UNCHANGED <<pureVars, dir, poolVars, sp, snapshots, prompted, response>>

\* main going on to the prompt without calling save_playlist_info
SaveSnapshotLeftOut ==
    /\ mpc = "save"
    /\ mpc' = "prompt"
    /\ UNCHANGED <<pureVars, dir, poolVars, sp, offset, liked_songs, requests,
                   pages, fetched, snapshots, prompted, response, printed,
                   exitcode>>

\* lines 219 and 178-183: save_playlist_info writes playlist_info.json into
\* the download folder, or open() raises
SaveSnapshot ==
    /\ mpc = "save"
    /\ \E ok \in BOOLEAN :
          IF ok
          THEN /\ snapshots' = Append(snapshots, fetched[1])
               /\ dir' = dir \cup {PlaylistFile}
               /\ mpc' = "prompt"
               /\ UNCHANGED <<printed, exitcode>>
          ELSE /\ FatalError
               /\ UNCHANGED <<snapshots, dir>>
    /\ UNCHANGED <<pureVars, poolVars, sp, offset, liked_songs, requests,
                   pages, fetched, prompted, response>>

\* str.lower() on the answers typed here
Lower(text) == IF text = "Y" THEN "y" ELSE text

\* a test that cancels on 'n' only
DeclinedOnNoOnly(answer) == answer = "n"

\* line 223: if response != 'y'
Declined(answer) == answer # "y"

\* lines 222-228: the prompt shows the count and input() returns what was
\* typed, or raises at end of input; on 'y' (after lower())
\* download_all_songs is called with the default width
Prompt ==
    /\ mpc = "prompt"
    /\ prompted' = <<Len(fetched[1])>>
    /\ \E typed \in {"y", "Y", "n", "", "EOF"} :
          IF typed = "EOF"
          THEN /\ printed' = printed \o <<"Found songs. Download all?",
                                           "An error occurred">>
               /\ mpc' = "exit"
               /\ exitcode' = <<0>>
               /\ UNCHANGED <<response, poolVars>>
          ELSE /\ response' = <<Lower(typed)>>
               /\ IF Declined(Lower(typed))
                  THEN /\ printed' = printed \o <<"Found songs. Download all?",
                                                   "Download cancelled.">>
                       /\ mpc' = "exit"
                       /\ exitcode' = <<0>>
                       /\ UNCHANGED <<poolVars>>
                  ELSE /\ printed' = Append(printed, "Found songs. Download all?")
                       /\ mpc' = "download"
                       /\ EnterDownloadAll(fetched[1], DefaultMaxWorkers)
                       /\ UNCHANGED <<exitcode, run, firstrun>>
    /\ UNCHANGED <<pureVars, dir, sp, offset, liked_songs, requests, pages,
                   fetched, snapshots>>

\* lines 228-231: download_all_songs returns after its summary, or its
\* exception reaches main's handler
MainFinish ==
    /\ mpc = "download"
    /\ cpc \in {"summary", "raised"}
    /\ IF cpc = "summary"
       THEN /\ mpc' = "exit"
            /\ exitcode' = <<0>>
            /\ UNCHANGED printed
       ELSE FatalError
    /\ UNCHANGED <<pureVars, dir, poolVars, sp, offset, liked_songs, requests,
                   pages, fetched, snapshots, prompted, response>>

----------------------------------------------------------------------------
(* sanitize_filename and the existence check on their own *)

\* entries SpecPure fills the folder from
PureFiles ==
    { <<"a", " ", "-", " ", "a">> \o Mp3,
      <<"[", "a", " ", "-", " ", "]">> \o Mp3,
      <<"[", "a", "]", " ", "-", " ", "a">> \o Mp3,
      PlaylistFile }

\* the characters SpecSanitize draws the argument of sanitize_filename from
SanitizeAlphabet ==
    {"<", ">", ":", "\"", "/", "\\", "|", "?", "*", "a", "[", " "}

\* line 101, on a text of its own
SanitizeText ==
    /\ pstage = "init"
    /\ psafe' = sanitize_filename(ptext)
    /\ pstage' = "sanitized"
    /\ UNCHANGED <<ptext, partist, pname, pfiles, dir, poolVars, mainVars>>

\* line 106
PureSanitize ==
    /\ pstage = "init"
    /\ psafe' = SafeFilename(partist, pname)
    /\ pstage' = "sanitized"
    /\ UNCHANGED <<ptext, partist, pname, pfiles, dir, poolVars, mainVars>>

\* line 109
PureGlob ==
    /\ pstage = "sanitized"
    /\ pfiles' = PotentialFiles(dir, psafe)
    /\ pstage' = "globbed"
    /\ UNCHANGED <<ptext, partist, pname, psafe, dir, poolVars, mainVars>>

----------------------------------------------------------------------------
(* The specifications *)

PureOff ==
    /\ pstage = "off" /\ ptext = <<>> /\ partist = <<>> /\ pname = <<>> /\ psafe = <<>> /\ pfiles = {}

PoolOff ==
    /\ songs = <<>> /\ max_workers = DefaultMaxWorkers /\ cpc = "idle"
    /\ submitted = 0 /\ task = <<>> /\ yielded = {}
    /\ successful_downloads = 0 /\ failed_downloads = 0 /\ skipped_downloads = 0
    /\ run = 1 /\ firstrun = <<>>

MainOff ==
    /\ mpc = "off" /\ sp = FALSE /\ offset = 0 /\ liked_songs = <<>>
    /\ requests = <<>> /\ pages = <<>> /\ fetched = <<>> /\ snapshots = <<>>
    /\ prompted = <<>> /\ response = <<>>
    /\ printed = <<>> /\ exitcode = <<>>

\* main() is entered; the folder may hold files of an earlier run
Init ==
    /\ PureOff
    /\ PoolOff
    /\ dir \in PoolDirs
    /\ mpc = "start" /\ sp = FALSE /\ offset = 0 /\ liked_songs = <<>>
    /\ requests = <<>> /\ pages = <<>> /\ fetched = <<>> /\ snapshots = <<>>
    /\ prompted = <<>> /\ response = <<>>
    /\ printed = <<>> /\ exitcode = <<>>

PoolNext ==
    \/ Submit
    \/ \E i \in Indices : TaskBegin(i)
    \/ \E i \in Indices : TaskSearch(i)
    \/ \E i \in Indices : TaskDownload(i)
    \/ \E i \in Indices : Collect(i)
    \/ Summary
    \/ Unwind

Next ==
    \/ MainStart
    \/ Authenticate
    \/ FetchPage
    \/ SaveSnapshot
    \/ Prompt
    \/ PoolNext
    \/ MainFinish

Spec == Init /\ [][Next]_vars

\* download_all_songs(songs, max_workers) is entered
InitPool ==
    /\ PureOff
    /\ MainOff
    /\ dir \in PoolDirs
    /\ songs \in SeqsUpTo(PoolTracks, MaxSongs)
    /\ max_workers \in 1..DefaultMaxWorkers
    /\ cpc = "running"
    /\ submitted = 0
    /\ task = [i \in 1..Len(songs) |-> NoTask]
    /\ yielded = {}
    /\ successful_downloads = 0 /\ failed_downloads = 0 /\ skipped_downloads = 0
    /\ run = 1 /\ firstrun = <<>>

SpecPool == InitPool /\ [][PoolNext]_vars

\* the same, and download_all_songs is called again once it has returned
NextRerun ==
    \/ PoolNext
    \/ Rerun

SpecRerun == InitPool /\ [][NextRerun]_vars

\* search_and_download_song is entered with an artist and a name
InitPure ==
    /\ PoolOff
    /\ MainOff
    /\ pstage = "init"
    /\ ptext = <<>>
    /\ partist \in SeqsUpTo(Alphabet, MaxLen)
    /\ pname \in SeqsUpTo(Alphabet, MaxLen)
    /\ psafe = <<>>
    /\ pfiles = {}
    /\ dir \in SUBSET PureFiles

NextPure ==
    \/ PureSanitize
    \/ PureGlob

SpecPure == InitPure /\ [][NextPure]_vars

\* sanitize_filename is entered with a text
InitSanitize ==
    /\ PoolOff
    /\ MainOff
    /\ pstage = "init"
    /\ ptext \in SeqsUpTo(SanitizeAlphabet, MaxLen)
    /\ partist = <<>> /\ pname = <<>> /\ psafe = <<>> /\ pfiles = {}
    /\ dir = {}

NextSanitize == SanitizeText

SpecSanitize == InitSanitize /\ [][NextSanitize]_vars

----------------------------------------------------------------------------
(* The claims *)

\* the four variants of an Outcome
Outcomes == {"Downloaded", "Skipped", "NotFound", "Error"}

Last(seq) == seq[Len(seq)]

\* C1 (SpecPool): total accounting.  Once download_all_songs has ended, every
\* submitted task has produced one of the four outcomes and the three
\* counters add up to the number of submitted tasks.
C1_TotalAccounting ==
    cpc \in {"summary", "raised"} =>
        /\ \A i \in Indices : task[i].outcome \in Outcomes
        /\ successful_downloads + skipped_downloads + failed_downloads = Len(songs)

\* C2 (SpecPool): failure isolation.  No exception leaves a task body: a
\* finished task always carries one of the four outcomes, and
\* download_all_songs is never left by an exception of a task.
C2_FailureIsolation ==
    /\ \A i \in Indices : task[i].pc = "done" => task[i].outcome \in Outcomes
    /\ cpc \notin {"unwind", "raised"}

\* C3 (SpecRerun): idempotent re-run.  When every track of the first call
\* ended Downloaded or Skipped, the second call issues no search and no
\* download, and every task of it whose existence check has returned is
\* Skipped.
C3_IdempotentRerun ==
    (run = 2 /\ \A i \in Indices : firstrun[i] \in {"Downloaded", "Skipped"}) =>
        \A i \in Indices :
            /\ task[i].pc \notin {"search", "download"}
            /\ task[i].searches = 0
            /\ task[i].downloads = 0
            /\ task[i].existed # "unknown" => task[i].outcome = "Skipped"

\* the concatenation of the projected pages, in page order
RECURSIVE ConcatPages(_)
ConcatPages(ps) ==
    IF ps = <<>> THEN <<>> ELSE ProjectPage(Head(ps)) \o ConcatPages(Tail(ps))

RECURSIVE SumOfSizes(_)
SumOfSizes(ps) == IF ps = <<>> THEN 0 ELSE Len(Head(ps)) + SumOfSizes(Tail(ps))

\* C4 (Spec): pagination.  The first request is at offset 0 and each later
\* one 50 past the one before; the fetch goes on after every page that is not
\* empty and makes no request after the first empty one; what it returns is
\* the concatenation of the pages before that empty page, so its length is
\* the sum of their sizes.
C4_Pagination ==
    /\ requests # <<>> => requests[1] = 0
    /\ \A k \in 2..Len(requests) : requests[k] = requests[k - 1] + 50
    /\ \A k \in 1..(Len(pages) - 1) : pages[k] # <<>>
    /\ (pages # <<>> /\ Last(pages) = <<>>) =>
           (fetched # <<>> /\ Len(requests) = Len(pages))
    /\ fetched # <<>> =>
           /\ pages # <<>> /\ Last(pages) = <<>>
           /\ fetched[1] = ConcatPages(SubSeq(pages, 1, Len(pages) - 1))
           /\ Len(fetched[1]) = SumOfSizes(SubSeq(pages, 1, Len(pages) - 1))

\* C4 witness: two pages with an item each, then the empty page
C4_Witness ==
    /\ fetched # <<>>
    /\ Len(pages) = 3
    /\ Len(fetched[1]) = 2
    /\ requests = <<0, 50, 100>>

\* a page request has raised: one more request than pages returned
PageRequestFailed == Len(requests) > Len(pages)

\* C5 (Spec): the fetch is fail-closed.  After a page request has raised,
\* nothing has been returned to main, no snapshot has been written and no
\* task has been submitted, and main has stopped.
C5_FetchFailClosed ==
    PageRequestFailed =>
        /\ fetched = <<>>
        /\ snapshots = <<>>
        /\ cpc = "idle" /\ submitted = 0 /\ task = <<>>
        /\ mpc = "exit"

\* C5 witness: the request fails after a page with items has been fetched
C5_Witness == PageRequestFailed /\ liked_songs # <<>>

\* C6 (Spec): a run that ended on a fatal error has shown its message and
\* has a non-zero exit status; no error of a track aborts the run.
C6_FatalErrorsExitNonZero ==
    /\ (exitcode # <<>> /\ printed # <<>> /\ Last(printed) = "An error occurred") =>
           exitcode[1] # 0
    /\ cpc \notin {"unwind", "raised"}

\* C7 (SpecPure): the existence check is true exactly when an entry of the
\* folder starts with the identifier, read literally.
C7_ExistenceGuardIsLiteralPrefix ==
    pstage = "globbed" =>
        ((pfiles # {}) <=> (\E f \in dir : IsPrefix(psafe, f)))

\* C8 (SpecSanitize): sanitize_filename is idempotent, and its result is the
\* text with the nine characters < > : " / \ | ? * removed and all others
\* kept in their order.
C8_SanitizeExactAndIdempotent ==
    pstage = "sanitized" =>
        LET reserved == {"<", ">", ":", "\"", "/", "\\", "|", "?", "*"}
            kept == {i \in 1..Len(ptext) : ptext[i] \notin reserved}
        IN  /\ sanitize_filename(psafe) = psafe
            /\ Len(psafe) = Cardinality(kept)
            /\ \A i \in kept : psafe[Cardinality({j \in kept : j <= i})] = ptext[i]

\* C8 witness: a text of which one character is removed and one is kept
C8_Witness ==
    /\ pstage = "sanitized"
    /\ Len(ptext) = 2
    /\ Len(psafe) = 1

\* the search returned an empty result set
EmptyResultSet(info) ==
    IF "entries" \in DOMAIN info THEN info.entries = <<>> ELSE TRUE

\* C9 (SpecPool): NotFound leaves the folder untouched.  The step in which the
\* search of a task returns an empty result set ends the task as NotFound and
\* leaves the folder as it was; a NotFound task has attempted no download, has
\* written no file, and does nothing afterwards.
C9_NotFoundLeavesFolder ==
    [][\A i \in Indices :
          /\ (task[i].pc = "search" /\ task'[i].info # <<>>
                 /\ EmptyResultSet(task'[i].info[1])) =>
                 /\ task[i].existed = "no"
                 /\ task'[i].pc = "done"
                 /\ task'[i].outcome = "NotFound"
                 /\ task'[i].downloads = 0
                 /\ task'[i].wrote = {}
                 /\ dir' = dir
          /\ task[i].outcome = "NotFound" => task'[i] = task[i]]_vars

\* C9 witness: a task ended NotFound on an empty result set
C9_Witness ==
    \E i \in Indices :
        /\ task[i].outcome = "NotFound"
        /\ task[i].info = <<[entries |-> <<>>]>>
        /\ task[i].searches = 1

\* C10 (SpecPool): collision skip.  A task whose existence check is made, and
\* returns, while another task of the same call with the same sanitized
\* identifier has already ended Downloaded ends Skipped, without a search or a
\* download.
C10_CollisionSkip ==
    [][\A i \in Indices, j \in Indices :
          (/\ i # j
           /\ task[j].outcome = "Downloaded"
           /\ task[i].pc = "queued"
           /\ task'[i].existed # "unknown"
           /\ WellFormed(songs[i])
           /\ SafeFilename(songs[i].artist, songs[i].name) = task[j].safe) =>
              /\ task'[i].outcome = "Skipped"
              /\ task'[i].searches = 0
              /\ task'[i].downloads = 0]_vars

\* C11 (SpecPool): bounded concurrency.  At no time are more than max_workers
\* tasks started and not yet ended, max_workers is at most the default of 3
\* here, and a task that has started keeps its thread until it has ended: it
\* is never put back in the queue or un-submitted, and an ended task stays
\* ended.
C11_BoundedConcurrency ==
    /\ [](Cardinality(Running) <= max_workers /\ max_workers <= DefaultMaxWorkers)
    /\ [][\A i \in Indices :
             /\ task[i].pc \in {"search", "download"} =>
                    task'[i].pc \in {"search", "download", "done"}
             /\ task[i].pc = "done" => task'[i].pc = "done"]_vars

\* C11 witness: every thread is busy while a task waits in the queue
C11_Witness ==
    /\ Cardinality(Running) = max_workers
    /\ \E i \in Indices : task[i].pc = "queued"
    /\ \E i \in Indices : task[i].pc = "download"

\* C12 (SpecPool): the summary comes last.  Whenever the summary has been
\* printed, every list entry has been submitted, every task has ended, every
\* result has been taken by the loop of download_all_songs and counted once;
\* no task is queued or running then, and none changes afterwards.
C12_SummaryAfterAllTasks ==
    /\ [](cpc = "summary" =>
             /\ submitted = Len(songs)
             /\ \A i \in Indices : task[i].pc = "done"
             /\ yielded = Indices
             /\ successful_downloads + skipped_downloads + failed_downloads
                    = Len(songs))
    /\ [][cpc = "summary" => task' = task]_vars

\* C12 witness: the summary of a call with two tasks, one of which searched
\* and downloaded
C12_Witness ==
    /\ cpc = "summary"
    /\ Len(songs) = 2
    /\ \E i \in Indices : task[i].outcome = "Downloaded"

\* main has returned without reaching its exception handler
EndedWithoutFatalError ==
    /\ mpc = "exit"
    /\ printed # <<>>
    /\ Last(printed) # "An error occurred"

\* C13 (Spec), as stated: snapshot ordering.  playlist_info.json is never
\* written twice, it has been written when the first task is submitted, and
\* every run whose fetch has returned and that ended without a fatal error
\* has written it once.
C13_SnapshotInEveryFetchedRun ==
    /\ Len(snapshots) <= 1
    /\ submitted > 0 => Len(snapshots) = 1
    /\ (fetched # <<>> /\ EndedWithoutFatalError) => Len(snapshots) = 1

\* C13 (Spec), amended: playlist_info.json is never written twice; from the
\* prompt on, and so before download_all_songs is entered and before any
\* task is submitted, it has been written once, holds the fetched list and
\* lies in the download folder; a run that fetched at least one song and
\* ended without a fatal error has written it once; a run whose fetch
\* returned an empty list writes none.
C13_SnapshotBeforeSubmission ==
    /\ Len(snapshots) <= 1
    /\ (mpc \in {"prompt", "download"} \/ cpc # "idle" \/ submitted > 0) =>
           /\ fetched # <<>>
           /\ snapshots = <<fetched[1]>>
           /\ PlaylistFile \in dir
    /\ (fetched # <<>> /\ fetched[1] # <<>> /\ EndedWithoutFatalError) =>
           Len(snapshots) = 1
    /\ (fetched # <<>> /\ fetched[1] = <<>>) => snapshots = <<>>

\* C13 witness: two songs were fetched, the snapshot is written and the
\* first task is submitted
C13_Witness ==
    /\ submitted = 1
    /\ Len(snapshots) = 1
    /\ Len(snapshots[1]) = 2

\* C14 (SpecPool): output naming.  A task that ended Downloaded has written
\* one file, named by its identifier followed by the extension, with no path
\* separator in the name; the identifier is the sanitized query and equals
\* the sanitized artist, " - ", the sanitized name; and the existence check
\* for that identifier on the folder as it then is finds a file.
C14_OutputNaming ==
    \A i \in Indices :
        task[i].outcome = "Downloaded" =>
            LET artist == songs[i].artist
                name == songs[i].name
                identifier == sanitize_filename(Query(artist, name))
            IN  /\ task[i].wrote = {OutputFile(identifier, Mp3)}
                /\ task[i].wrote \subseteq dir
                /\ \A f \in task[i].wrote :
                       \A k \in 1..Len(f) : f[k] \notin {"/", "\\"}
                /\ identifier =
                       sanitize_filename(artist) \o Dash \o sanitize_filename(name)
                /\ PotentialFiles(dir, identifier) # {}

\* how many tasks ended with an outcome of S
CountEnded(S) == Cardinality({i \in Indices : task[i].outcome \in S})

\* C15 (SpecPool): the summary counts match the outcomes.  When the summary
\* is printed, the downloaded count is the number of tasks that ended
\* Downloaded, the skipped count the number that ended Skipped, and the
\* failed count the number that ended NotFound or Error.
C15_SummaryCountsMatchOutcomes ==
    cpc = "summary" =>
        /\ successful_downloads = CountEnded({"Downloaded"})
        /\ skipped_downloads = CountEnded({"Skipped"})
        /\ failed_downloads = CountEnded({"NotFound", "Error"})

\* the identifier has no '[', so the pattern of line 109 is read literally
ReadLiterally(safe) == \A k \in 1..Len(safe) : safe[k] # "["

\* two tasks of the call with the same identifier that both ended Downloaded
BothDownloaded(i, j) ==
    /\ i # j
    /\ task[i].outcome = "Downloaded"
    /\ task[j].outcome = "Downloaded"
    /\ task[i].safe = task[j].safe
    /\ ReadLiterally(task[i].safe)

\* C16 (SpecPool): the existence-check race.  Two tasks with the same
\* identifier both end Downloaded only when there are at least two workers;
\* both have then passed the existence check, so neither had written when the
\* other checked, and each has searched once, downloaded once and written
\* the same file.  That such a run exists is what the witness shows.
C16_ExistenceCheckRace ==
    \A i \in Indices, j \in Indices :
        BothDownloaded(i, j) =>
            /\ max_workers >= 2
            /\ task[i].existed = "no" /\ task[j].existed = "no"
            /\ task[i].searches = 1 /\ task[j].searches = 1
            /\ task[i].downloads = 1 /\ task[j].downloads = 1
            /\ task[i].wrote = task[j].wrote

\* C16 witness: two different tracks with one identifier, both Downloaded
C16_Witness ==
    \E i \in Indices, j \in Indices :
        /\ BothDownloaded(i, j)
        /\ songs[i] # songs[j]
        /\ max_workers >= 2

\* the step in which the existence check of task i returns
CheckReturns(i) == task[i].existed = "unknown" /\ task'[i].existed # "unknown"

\* C17 (SpecPool): the skip decision and its frame.  The existence check
\* reports true exactly when the listing of line 109 is not empty; a task is
\* Skipped exactly when its check reported true; the step that skips it
\* leaves the folder as it was, and a Skipped task has made no search and no
\* download, has written nothing and does nothing afterwards.  A task whose
\* check reported false searches next, never searches twice, and has
\* searched exactly once when it has ended.
C17_SkipDecisionAndFrame ==
    /\ [](\A i \in Indices :
             /\ task[i].outcome = "Skipped" <=> task[i].existed = "yes"
             /\ task[i].outcome = "Skipped" =>
                    /\ task[i].pc = "done"
                    /\ task[i].searches = 0
                    /\ task[i].downloads = 0
                    /\ task[i].info = <<>>
                    /\ task[i].wrote = {}
             /\ task[i].existed = "no" =>
                    /\ task[i].pc \in {"search", "download", "done"}
                    /\ task[i].searches = (IF task[i].pc = "search" THEN 0 ELSE 1))
    /\ [][\A i \in Indices :
             /\ CheckReturns(i) =>
                    /\ task[i].pc = "queued"
                    /\ task'[i].existed = "yes" <=>
                           PotentialFiles(dir, SafeFilename(songs[i].artist,
                                                            songs[i].name)) # {}
                    /\ task'[i].existed = "yes" => dir' = dir
                    /\ task'[i].existed = "no" => task'[i].pc = "search"
             /\ task[i].outcome = "Skipped" => task'[i] = task[i]]_vars

\* C17 witness: in one call a task was skipped and another, whose check
\* reported false, has searched
C17_Witness ==
    \E i \in Indices, j \in Indices :
        /\ task[i].outcome = "Skipped" /\ task[i].existed = "yes"
        /\ task[j].existed = "no" /\ task[j].pc = "done" /\ task[j].searches = 1

\* C18 (SpecPool): no retries.  The list entries are submitted one by one in
\* list order, each once: a task enters the queue only from the unsubmitted
\* state, in the step that counts it, and never returns to the unsubmitted or
\* the queued state.  A task makes at most one search and at most one
\* download, its counts never decrease, and a task that ended NotFound or
\* Error never changes again.
C18_NoRetries ==
    /\ [](/\ submitted <= Len(songs)
          /\ \A i \in Indices :
                /\ (i <= submitted) <=> (task[i].pc # "unsubmitted")
                /\ task[i].searches <= 1
                /\ task[i].downloads <= task[i].searches)
    /\ [][\A i \in Indices :
             /\ (task[i].pc # "queued" /\ task'[i].pc = "queued") =>
                    /\ task[i].pc = "unsubmitted"
                    /\ i = submitted + 1
                    /\ submitted' = submitted + 1
             /\ task[i].pc # "unsubmitted" => task'[i].pc # "unsubmitted"
             /\ task'[i].searches >= task[i].searches
             /\ task'[i].downloads >= task[i].downloads
             /\ task[i].outcome \in {"NotFound", "Error"} => task'[i] = task[i]]_vars

\* C18 witness: the summary of a call in which one task ended NotFound and
\* one ended Error after its download raised, each with a single search
C18_Witness ==
    /\ cpc = "summary"
    /\ \E i \in Indices, j \in Indices :
          /\ task[i].outcome = "NotFound" /\ task[i].searches = 1
          /\ task[j].outcome = "Error" /\ task[j].searches = 1
          /\ task[j].downloads = 1

\* download_all_songs can take no further step: no submission, no task step,
\* no result to collect, no summary to print, no exception to pass on
CallAtRest == ~ENABLED PoolNext

\* C19 (SpecPool): every task terminates and the call completes.  Each
\* search and each download returns or raises in one step here, and every
\* step advances a task or the call, so a run is finite; the call then comes
\* to rest only with the summary printed and with every submitted task in
\* one of the four terminal states.
C19_RunCompletes ==
    CallAtRest =>
        /\ cpc = "summary"
        /\ submitted = Len(songs)
        /\ \A i \in Indices : task[i].pc = "done" /\ task[i].outcome \in Outcomes

\* download_all_songs has been entered by main, or a task exists
DownloadBegun == cpc # "idle" \/ submitted > 0 \/ task # <<>>

\* C20 (Spec): the confirmation gate.  When download_all_songs has been
\* entered or a task exists, the fetch has returned a list that is not
\* empty, the prompt has shown its length, the answer was 'y' once lowered,
\* and the list being downloaded is the fetched one.  After any other
\* answer, and after a fetch that returned an empty list, main has stopped
\* and no task exists, so nothing was submitted, searched or downloaded.
C20_ConfirmationGate ==
    /\ DownloadBegun =>
           /\ fetched # <<>>
           /\ fetched[1] # <<>>
           /\ prompted = <<Len(fetched[1])>>
           /\ response = <<"y">>
           /\ songs = fetched[1]
    /\ ((response # <<>> /\ response # <<"y">>)
           \/ (fetched # <<>> /\ fetched[1] = <<>>)) =>
           /\ ~DownloadBegun
           /\ mpc = "exit"

\* C20 witness: after the answer 'y' both fetched songs were submitted and
\* one of them has been searched
C20_Witness ==
    /\ response = <<"y">>
    /\ prompted = <<2>>
    /\ submitted = 2
    /\ \E i \in Indices : task[i].searches = 1

====
